---- MODULE Spec2Model ----
(***************************************************************************)
(* A model of log-parser.py: the interactive run of main() (path           *)
(* resolution, filter criteria, extract_log_entries, save_to_csv) over a   *)
(* persistent output file, and the functions extract_time and              *)
(* ensure_log_extension over bounded inputs.                               *)
(*                                                                         *)
(* Text is a sequence of one-character strings.  A Python value that may   *)
(* be None is None == << >> or Some(v) == << v >>.  A datetime is the      *)
(* tuple << year, month, day, hour, minute, second >>.                     *)
(***************************************************************************)
EXTENDS Integers, Sequences, FiniteSets

VARIABLES
    pc,            \* position of the process in main(): see MainPcs
    runs,          \* number of runs of the program started so far
    now,           \* the wall clock, as datetime.datetime.now() returns it
    console,       \* what the current run has printed, in order
    log_file,      \* main: log_file
    keyword,       \* main: keyword
    start_time_str, \* main: start_time_str
    end_time_str,  \* main: end_time_str
    start_time,    \* main: start_time
    end_time,      \* main: end_time
    file_status,   \* what open(log_file, 'r') met in this run
    lines,         \* the lines the loop of extract_log_entries read
    reads,         \* reads[i]: the clock while line i was processed
    verdicts,      \* verdicts[i]: the statement that disposed of line i
    log_entries,   \* main: log_entries
    csv,           \* content of parsed_log.csv
    csv_before,    \* content of parsed_log.csv when the current run started
    saves,         \* invocations of save_to_csv by the current run
    arg,           \* argument of a function applied on its own
    ret            \* its successive results

mainVars == << pc, runs, now, console, log_file, keyword, start_time_str,
               end_time_str, start_time, end_time, file_status, lines, reads,
               verdicts, log_entries, csv, csv_before, saves >>

vars == << mainVars, arg, ret >>

----------------------------------------------------------------------------
(* Bounds of the model. *)

MaxRuns == 2
MaxLines == 2
MaxTokens == 4
MaxNameLen == 5

----------------------------------------------------------------------------
(* Python values. *)

None == << >>
Some(v) == << v >>

\* bool(x) of a str that may be None: None and "" are false.
TruthyStr(o) == o # None /\ o[1] # << >>

\* bool(x) of a datetime that may be None: every datetime is true.
TruthyDt(o) == o # None

IsSpace(c) == c \in {" ", "\t", "\n"}

\* str.strip()
Strip(s) ==
    LET keep == {i \in 1..Len(s) : ~IsSpace(s[i])}
    IN  IF keep = {} THEN << >>
        ELSE LET lo == CHOOSE i \in keep : \A j \in keep : i <= j
                 hi == CHOOSE i \in keep : \A j \in keep : j <= i
             IN  SubSeq(s, lo, hi)

RECURSIVE SplitFrom(_, _, _, _)
SplitFrom(s, i, cur, acc) ==
    IF i > Len(s) THEN (IF cur = << >> THEN acc ELSE Append(acc, cur))
    ELSE IF IsSpace(s[i])
         THEN SplitFrom(s, i + 1, << >>,
                        IF cur = << >> THEN acc ELSE Append(acc, cur))
         ELSE SplitFrom(s, i + 1, Append(cur, s[i]), acc)

\* str.split(): the maximal runs of non-whitespace characters.
Split(s) == SplitFrom(s, 1, << >>, << >>)

RECURSIVE SplitOnFrom(_, _, _, _, _)
SplitOnFrom(s, c, i, cur, acc) ==
    IF i > Len(s) THEN Append(acc, cur)
    ELSE IF s[i] = c THEN SplitOnFrom(s, c, i + 1, << >>, Append(acc, cur))
         ELSE SplitOnFrom(s, c, i + 1, Append(cur, s[i]), acc)

\* The fields of s between occurrences of the character c, empty ones kept.
SplitOn(s, c) == SplitOnFrom(s, c, 1, << >>, << >>)

RECURSIVE Join(_, _)
\* sep.join(parts)
Join(parts, sep) ==
    IF parts = << >> THEN << >>
    ELSE IF Len(parts) = 1 THEN parts[1]
         ELSE parts[1] \o sep \o Join(Tail(parts), sep)

\* k in s, for strings
Contains(k, s) ==
    \E i \in 0..(Len(s) - Len(k)) : SubSeq(s, i + 1, i + Len(k)) = k

\* s.endswith(suffix)
EndsWith(s, suffix) ==
    /\ Len(s) >= Len(suffix)
    /\ SubSeq(s, Len(s) - Len(suffix) + 1, Len(s)) = suffix

UpperCase == << "A", "B", "C", "D", "E", "F", "G", "H", "I", "J", "K", "L", "M",
                "N", "O", "P", "Q", "R", "S", "T", "U", "V", "W", "X", "Y", "Z" >>
LowerCase == << "a", "b", "c", "d", "e", "f", "g", "h", "i", "j", "k", "l", "m",
                "n", "o", "p", "q", "r", "s", "t", "u", "v", "w", "x", "y", "z" >>

LowerChar(c) ==
    IF \E i \in 1..Len(UpperCase) : UpperCase[i] = c
    THEN LowerCase[CHOOSE i \in 1..Len(UpperCase) : UpperCase[i] = c]
    ELSE c

\* str.lower()
Lower(s) == [i \in 1..Len(s) |-> LowerChar(s[i])]

DigitChars == << "0", "1", "2", "3", "4", "5", "6", "7", "8", "9" >>

IsDigit(c) == \E i \in 1..Len(DigitChars) : DigitChars[i] = c
DigitVal(c) == (CHOOSE i \in 1..Len(DigitChars) : DigitChars[i] = c) - 1

AllDigits(s) == \A i \in 1..Len(s) : IsDigit(s[i])

RECURSIVE IntOf(_)
\* int(s) of a string of decimal digits
IntOf(s) ==
    IF s = << >> THEN 0
    ELSE 10 * IntOf(SubSeq(s, 1, Len(s) - 1)) + DigitVal(s[Len(s)])

RECURSIVE StrOfInt(_)
\* str(n) of an integer n >= 0
StrOfInt(n) ==
    IF n < 10 THEN << DigitChars[n + 1] >>
    ELSE Append(StrOfInt(n \div 10), DigitChars[(n % 10) + 1])

RECURSIVE ZeroPad(_, _)
\* the digits of n, padded with zeros on the left to the width w
ZeroPad(s, w) == IF Len(s) >= w THEN s ELSE ZeroPad(<< "0" >> \o s, w)

----------------------------------------------------------------------------
(* datetime *)

Year(dt) == dt[1]

\* a < b for datetimes: the comparison of their fields in order.
DtLess(a, b) ==
    \E i \in 1..6 : a[i] < b[i] /\ \A j \in 1..(i - 1) : a[j] = b[j]

IsLeap(y) == (y % 4 = 0 /\ y % 100 # 0) \/ y % 400 = 0

DaysInMonth(y, m) ==
    IF m = 2 THEN (IF IsLeap(y) THEN 29 ELSE 28)
    ELSE IF m \in {4, 6, 9, 11} THEN 30 ELSE 31

\* datetime.datetime(y, m, d, H, M, S): None stands for its ValueError.
MakeDatetime(y, m, d, H, M, S) ==
    IF /\ y \in 1..9999
       /\ m \in 1..12
       /\ d \in 1..DaysInMonth(y, m)
       /\ H \in 0..23
       /\ M \in 0..59
       /\ S \in 0..59
    THEN Some(<< y, m, d, H, M, S >>)
    ELSE None

MonthAbbr == << << "j", "a", "n" >>, << "f", "e", "b" >>, << "m", "a", "r" >>,
                << "a", "p", "r" >>, << "m", "a", "y" >>, << "j", "u", "n" >>,
                << "j", "u", "l" >>, << "a", "u", "g" >>, << "s", "e", "p" >>,
                << "o", "c", "t" >>, << "n", "o", "v" >>, << "d", "e", "c" >> >>

\* A field of one or two digits whose value is in lo..hi, or None.
Field2(s, lo, hi) ==
    IF Len(s) \in {1, 2} /\ AllDigits(s) /\ IntOf(s) \in lo..hi
    THEN Some(IntOf(s)) ELSE None

\* %b: a month abbreviation, in any case
FieldMonth(s) ==
    IF \E i \in 1..Len(MonthAbbr) : MonthAbbr[i] = Lower(s)
    THEN Some(CHOOSE i \in 1..Len(MonthAbbr) : MonthAbbr[i] = Lower(s))
    ELSE None

\* %Y: exactly four digits
FieldYear(s) == IF Len(s) = 4 /\ AllDigits(s) THEN Some(IntOf(s)) ELSE None

\* %H:%M:%S; the pattern of %S admits 60 and 61, which datetime then refuses.
FieldsClock(s) ==
    LET p == SplitOn(s, ":")
    IN  IF Len(p) # 3 THEN None
        ELSE LET H == Field2(p[1], 0, 23)
                 M == Field2(p[2], 0, 59)
                 S == Field2(p[3], 0, 61)
             IN  IF H = None \/ M = None \/ S = None THEN None
                 ELSE Some(<< H[1], M[1], S[1] >>)

\* datetime.datetime.strptime(s, "%b %d %H:%M:%S %Y"); None stands for its
\* ValueError.  Blanks in the format match one or more whitespace characters
\* and the whole of s must be matched.
StrptimeLog(s) ==
    LET t == Split(s)
    IN  IF Len(t) # 4 \/ s = << >> \/ IsSpace(s[1]) \/ IsSpace(s[Len(s)])
        THEN None
        ELSE LET b == FieldMonth(t[1])
                 d == Field2(t[2], 1, 31)
                 c == FieldsClock(t[3])
                 y == FieldYear(t[4])
             IN  IF b = None \/ d = None \/ c = None \/ y = None THEN None
                 ELSE MakeDatetime(y[1], b[1], d[1], c[1][1], c[1][2], c[1][3])

\* datetime.datetime.strptime(s, "%Y-%m-%d %H:%M:%S"); None stands for its
\* ValueError.  (The " [1-9]" alternative of %d, a blank before a one-digit
\* day, is left out: no input of the model has it.)
StrptimeInput(s) ==
    LET t == Split(s)
    IN  IF Len(t) # 2 \/ s = << >> \/ IsSpace(s[1]) \/ IsSpace(s[Len(s)])
        THEN None
        ELSE LET p == SplitOn(t[1], "-")
                 c == FieldsClock(t[2])
             IN  IF Len(p) # 3 \/ c = None THEN None
                 ELSE LET y == FieldYear(p[1])
                          m == Field2(p[2], 1, 12)
                          d == Field2(p[3], 1, 31)
                      IN  IF y = None \/ m = None \/ d = None THEN None
                          ELSE MakeDatetime(y[1], m[1], d[1],
                                            c[1][1], c[1][2], c[1][3])

\* dt.strftime("%Y-%m-%d %H:%M:%S")
Strftime(dt) ==
    ZeroPad(StrOfInt(dt[1]), 4) \o << "-" >> \o ZeroPad(StrOfInt(dt[2]), 2)
    \o << "-" >> \o ZeroPad(StrOfInt(dt[3]), 2) \o << " " >>
    \o ZeroPad(StrOfInt(dt[4]), 2) \o << ":" >> \o ZeroPad(StrOfInt(dt[5]), 2)
    \o << ":" >> \o ZeroPad(StrOfInt(dt[6]), 2)

\* The instants the clock of the model can show: the last second of a leap
\* year and the first second of the next year.
ClockOld == << 2024, 12, 31, 23, 59, 59 >>
ClockNew == << 2025, 1, 1, 0, 0, 0 >>
Clock == {ClockOld, ClockNew}

----------------------------------------------------------------------------
(* extract_time *)

\* extract_time with the year it read cached from an earlier call
extract_time_stale_year(log_line, clock) ==
    LET parts == Split(log_line)
    IN  IF Len(parts) < 3 THEN None
        ELSE StrptimeLog(Join(SubSeq(parts, 1, 3), << " " >>) \o << " " >>
                         \o StrOfInt(Year(ClockOld)))

\* extract_time(log_line), called while the clock shows `clock`
extract_time(log_line, clock) ==
    LET parts == Split(log_line)
    IN  IF Len(parts) < 3 THEN None
        ELSE LET log_time == Join(SubSeq(parts, 1, 3), << " " >>)
                 current_year == Year(clock)
             IN  StrptimeLog(log_time \o << " " >> \o StrOfInt(current_year))

----------------------------------------------------------------------------
(* ensure_log_extension *)

DotLog == << ".", "l", "o", "g" >>

\* ensure_log_extension that appends the suffix whatever the name ends with
ensure_log_extension_always(file_name) == file_name \o DotLog

ensure_log_extension(file_name) ==
    IF EndsWith(file_name, DotLog) THEN file_name ELSE file_name \o DotLog

----------------------------------------------------------------------------
(* The texts the model draws its inputs from. *)

\* "Nov 26 14:29:50 Failed\n"
LineStampA == << "N", "o", "v", " ", "2", "6", " ", "1", "4", ":", "2", "9",
    ":", "5", "0", " ", "F", "a", "i", "l", "e", "d", "\n" >>

\* "Nov 26 14:29:51 failed\n"
LineStampB == << "N", "o", "v", " ", "2", "6", " ", "1", "4", ":", "2", "9",
    ":", "5", "1", " ", "f", "a", "i", "l", "e", "d", "\n" >>

\* "Feb 29 00:00:00 up\n": a timestamp in a leap year only
LineLeap == << "F", "e", "b", " ", "2", "9", " ", "0", "0", ":", "0", "0",
    ":", "0", "0", " ", "u", "p", "\n" >>

\* "garbage short\n": two tokens
LineShort == << "g", "a", "r", "b", "a", "g", "e", " ", "s", "h", "o", "r",
    "t", "\n" >>

\* " say \"hi\", ok \n": no timestamp, leading blank, a quote and a comma
LineQuoted == << " ", "s", "a", "y", " ", "\"", "h", "i", "\"", ",", " ",
    "o", "k", " ", "\n" >>

\* "Failed"
WordFailed == << "F", "a", "i", "l", "e", "d" >>

\* " Failed "
WordFailedPadded == << " ", "F", "a", "i", "l", "e", "d", " " >>

\* "2024-11-26 14:29:50"
BoundA == << "2", "0", "2", "4", "-", "1", "1", "-", "2", "6", " ", "1",
    "4", ":", "2", "9", ":", "5", "0" >>

\* "2024-11-26 14:29:52"
BoundB == << "2", "0", "2", "4", "-", "1", "1", "-", "2", "6", " ", "1",
    "4", ":", "2", "9", ":", "5", "2" >>

\* "2024-11-26": no time of day
BoundMalformed == << "2", "0", "2", "4", "-", "1", "1", "-", "2", "6" >>

\* "/var/log/syslog"
SyslogPath == << "/", "v", "a", "r", "/", "l", "o", "g", "/", "s", "y", "s",
    "l", "o", "g" >>

\* os.getcwd() of the model: "/home"
Cwd == << "/", "h", "o", "m", "e" >>

\* "auth"
NameAuth == << "a", "u", "t", "h" >>

\* "auth.log"
NameAuthLog == << "a", "u", "t", "h", ".", "l", "o", "g" >>

TokNov == << "N", "o", "v" >>

TokFeb == << "f", "e", "b" >>

Tok29 == << "2", "9" >>

Tok31 == << "3", "1" >>

TokClock == << "1", "4", ":", "2", "9", ":", "5", "0" >>

TokClockLeapSecond == << "2", "3", ":", "5", "9", ":", "6", "0" >>

TokOther == << "x" >>

----------------------------------------------------------------------------
(* extract_log_entries *)

\* line_disposition with the start bound exclusive: "log_time <= start_time"
line_disposition_exclusive(line, clock, kw, st, en) ==
    IF TruthyStr(kw) /\ ~Contains(kw[1], line) THEN "keyword"
    ELSE IF TruthyDt(st) \/ TruthyDt(en)
         THEN LET log_time == extract_time(line, clock)
              IN  IF log_time # None
                  THEN IF TruthyDt(st) /\ ~DtLess(st[1], log_time[1])
                       THEN "start"
                       ELSE IF TruthyDt(en) /\ DtLess(en[1], log_time[1])
                            THEN "end"
                            ELSE "append"
                  ELSE "append"
         ELSE "append"

\* line_disposition that discards a line without a timestamp when a bound is
\* set
line_disposition_strict(line, clock, kw, st, en) ==
    IF TruthyStr(kw) /\ ~Contains(kw[1], line) THEN "keyword"
    ELSE IF TruthyDt(st) \/ TruthyDt(en)
         THEN LET log_time == extract_time(line, clock)
              IN  IF log_time # None
                  THEN IF TruthyDt(st) /\ DtLess(log_time[1], st[1])
                       THEN "start"
                       ELSE IF TruthyDt(en) /\ DtLess(en[1], log_time[1])
                            THEN "end"
                            ELSE "append"
                  ELSE "start"
         ELSE "append"

\* line_disposition that matches the keyword whatever the case of the letters
line_disposition_anycase(line, clock, kw, st, en) ==
    IF TruthyStr(kw) /\ ~Contains(Lower(kw[1]), Lower(line)) THEN "keyword"
    ELSE IF TruthyDt(st) \/ TruthyDt(en)
         THEN LET log_time == extract_time(line, clock)
              IN  IF log_time # None
                  THEN IF TruthyDt(st) /\ DtLess(log_time[1], st[1])
                       THEN "start"
                       ELSE IF TruthyDt(en) /\ DtLess(en[1], log_time[1])
                            THEN "end"
                            ELSE "append"
                  ELSE "append"
         ELSE "append"

\* The statement of the loop body that disposes of `line`: "keyword" is the
\* continue of line 14, "start" of line 19, "end" of line 21, and "append"
\* is line 22.  `clock` is what datetime.now() returns during this pass.
line_disposition(line, clock, kw, st, en) ==
    IF TruthyStr(kw) /\ ~Contains(kw[1], line) THEN "keyword"
    ELSE IF TruthyDt(st) \/ TruthyDt(en)
         THEN LET log_time == extract_time(line, clock)
              IN  IF log_time # None
                  THEN IF TruthyDt(st) /\ DtLess(log_time[1], st[1])
                       THEN "start"
                       ELSE IF TruthyDt(en) /\ DtLess(en[1], log_time[1])
                            THEN "end"
                            ELSE "append"
                  ELSE "append"
         ELSE "append"

RECURSIVE read_loop(_, _, _, _, _, _, _)
RECURSIVE read_loop_prepend(_, _, _, _, _, _, _)
\* read_loop that puts each retained line before the ones retained so far
read_loop_prepend(content, rd, i, kw, st, en, acc) ==
    IF i > Len(content) THEN acc
    ELSE LET how == line_disposition(content[i], rd[i], kw, st, en)
         IN  read_loop_prepend(content, rd, i + 1, kw, st, en,
                 [extracted |-> IF how = "append"
                                THEN << Strip(content[i]) >> \o acc.extracted
                                ELSE acc.extracted,
                  disposed |-> Append(acc.disposed, how)])

\* The for loop of lines 12-22 from line i on.  acc.extracted is
\* extracted_entries so far and acc.disposed the disposition of each line
\* read so far.
read_loop(content, rd, i, kw, st, en, acc) ==
    IF i > Len(content) THEN acc
    ELSE LET how == line_disposition(content[i], rd[i], kw, st, en)
         IN  read_loop(content, rd, i + 1, kw, st, en,
                 [extracted |-> IF how = "append"
                                THEN Append(acc.extracted, Strip(content[i]))
                                ELSE acc.extracted,
                  disposed |-> Append(acc.disposed, how)])

Msg(tag, text) == [tag |-> tag, text |-> text]

\* extract_log_entries without its handler of PermissionError
extract_log_entries_uncaught(path, status, content, rd, kw, st, en) ==
    IF status = "ok"
    THEN LET done == read_loop(content, rd, 1, kw, st, en,
                               [extracted |-> << >>, disposed |-> << >>])
         IN  [entries |-> done.extracted, disposed |-> done.disposed,
              printed |-> << >>, exc |-> ""]
    ELSE IF status = "missing"
    THEN [entries |-> << >>, disposed |-> << >>,
          printed |-> << Msg("Log file not found.", path) >>, exc |-> ""]
    ELSE [entries |-> << >>, disposed |-> << >>, printed |-> << >>,
          exc |-> IF status = "denied" THEN "PermissionError"
                  ELSE "IsADirectoryError"]

\* extract_log_entries(log_file, keyword, start_time, end_time) when opening
\* log_file meets `status` and the file holds the lines `content`: what it
\* returns, how each line was disposed of, what it prints, and the exception
\* it lets through ("" for none).
extract_log_entries(path, status, content, rd, kw, st, en) ==
    IF status = "ok"
    THEN LET done == read_loop(content, rd, 1, kw, st, en,
                               [extracted |-> << >>, disposed |-> << >>])
         IN  [entries |-> done.extracted, disposed |-> done.disposed,
              printed |-> << >>, exc |-> ""]
    ELSE IF status = "missing"
    THEN [entries |-> << >>, disposed |-> << >>,
          printed |-> << Msg("Log file not found.", path) >>, exc |-> ""]
    ELSE IF status = "denied"
    THEN [entries |-> << >>, disposed |-> << >>,
          printed |-> << Msg("Permission denied.", path) >>, exc |-> ""]
    ELSE [entries |-> << >>, disposed |-> << >>, printed |-> << >>,
          exc |-> "IsADirectoryError"]

----------------------------------------------------------------------------
(* save_to_csv *)

RECURSIVE write_entries(_, _, _)
\* The loop of lines 82-83: the file after the writes.
write_entries(file, timestamp, entries) ==
    IF entries = << >> THEN file
    ELSE write_entries(file \o << "\"" >> \o timestamp \o << "\"", ",", "\"" >>
                            \o entries[1] \o << "\"", "\n" >>,
                       timestamp, Tail(entries))

\* save_to_csv that opens output_file in mode 'w'
save_to_csv_truncating(entries, content, clock) ==
    write_entries(<< >>, Strftime(clock), entries)

\* save_to_csv(entries, output_file): the content of output_file afterwards,
\* `content` being its content before and `clock` what datetime.now() returns.
save_to_csv(entries, content, clock) ==
    write_entries(content, Strftime(clock), entries)

----------------------------------------------------------------------------
(* get_log_file_path *)

\* os.path.join(a, b)
PathJoin(a, b) ==
    IF b # << >> /\ b[1] = "/" THEN b
    ELSE IF a = << >> \/ a[Len(a)] = "/" THEN a \o b
         ELSE a \o << "/" >> \o b

YesNoInputs == { << "y" >>, << " ", "Y" >>, << "n" >> }
DirInputs == { << >>, << " " >> }
NameInputs == { NameAuth, NameAuthLog }

\* get_log_file_path() on the answers given and with os.path.isfile of the
\* syslog path being `isfile`: the path returned (None: exit() was called)
\* and what was printed.
get_log_file_path(use_syslog_in, isfile, use_custom_in, dir_in, name_in) ==
    LET use_syslog_dir == Lower(Strip(use_syslog_in))
        use_custom_dir == Lower(Strip(use_custom_in))
        seen == IF use_syslog_dir = << "y" >> /\ ~isfile
                THEN << Msg("No syslog file found in /var/log/.", << >>) >>
                ELSE << >>
    IN  IF use_syslog_dir = << "y" >> /\ isfile
        THEN [path |-> Some(SyslogPath),
              printed |-> << Msg("Default log file found", SyslogPath) >>]
        ELSE IF use_custom_dir = << "y" >>
        THEN LET stripped == Strip(dir_in)
                 custom_dir == IF stripped = << >> THEN Cwd ELSE stripped
                 log_file_name == Strip(name_in)
             IN  [path |-> Some(PathJoin(custom_dir,
                                         ensure_log_extension(log_file_name))),
                  printed |-> seen]
        ELSE [path |-> None,
              printed |-> Append(seen,
                  Msg("No valid log file found or specified. Exiting.", << >>))]

----------------------------------------------------------------------------
(* main: one run of the program after another *)

MainPcs == {"idle", "path", "criteria", "extract", "report",
            "done", "exited", "crashed"}

Stopped == {"idle", "done", "exited", "crashed"}

KeywordInputs == { << >>, WordFailedPadded }
TimeInputs == { << >>, BoundA, BoundMalformed }

LineVocabulary == {LineStampA, LineStampB, LineLeap, LineShort, LineQuoted}

RECURSIVE SeqsUpTo(_, _)
\* The sequences of at most n elements of S.
SeqsUpTo(S, n) ==
    IF n = 0 THEN {<< >>}
    ELSE LET shorter == SeqsUpTo(S, n - 1)
         IN  shorter \cup {Append(q, x) : q \in shorter, x \in S}

\* The contents of the log file: its lines, each with its line end.
AllFiles == SeqsUpTo(LineVocabulary, MaxLines)

\* The contents of the log file that the runs of main() meet.
MainFiles == { << >>, << LineQuoted >>, << LineStampA, LineQuoted >> }

\* What open(log_file, 'r') can meet.
OpenOutcomes == {"ok", "missing", "denied", "isdir"}

\* a <= b for datetimes
DtLeq(a, b) == a = b \/ DtLess(a, b)

\* What datetime.now() returns during each of n passes of the loop: the
\* clock starts no earlier than `from` and never runs backwards.
ClockReads(from, n) ==
    {r \in [1..n -> Clock] :
        /\ n > 0 => DtLeq(from, r[1])
        /\ \A i \in 1..(n - 1) : DtLeq(r[i], r[i + 1])}

MainInit ==
    /\ pc = "idle"
    /\ runs = 0
    /\ now \in Clock
    /\ console = << >>
    /\ log_file = None
    /\ keyword = None
    /\ start_time_str = << >>
    /\ end_time_str = << >>
    /\ start_time = None
    /\ end_time = None
    /\ file_status = "unopened"
    /\ lines = << >>
    /\ reads = << >>
    /\ verdicts = << >>
    /\ log_entries = << >>
    /\ csv = << >>
    /\ csv_before = << >>
    /\ saves = 0

\* The program is started: line 86.
StartRun ==
    /\ pc \in Stopped
    /\ runs < MaxRuns
    /\ pc' = "path"
    /\ runs' = runs + 1
    /\ console' = << Msg("=== Log Parser ===", << >>) >>
    /\ log_file' = None
    /\ keyword' = None
    /\ start_time_str' = << >>
    /\ end_time_str' = << >>
    /\ start_time' = None
    /\ end_time' = None
    /\ file_status' = "unopened"
    /\ lines' = << >>
    /\ reads' = << >>
    /\ verdicts' = << >>
    /\ log_entries' = << >>
    /\ csv_before' = csv
    /\ saves' = 0
    /\ UNCHANGED << now, csv, arg, ret >>

\* Line 87: log_file = get_log_file_path()
GetLogFilePath ==
    /\ pc = "path"
    /\ \E a \in YesNoInputs, isfile \in BOOLEAN, b \in YesNoInputs,
          d \in DirInputs, n \in NameInputs :
          LET r == get_log_file_path(a, isfile, b, d, n)
          IN  /\ log_file' = r.path
              /\ console' = console \o r.printed
              /\ pc' = IF r.path = None THEN "exited" ELSE "criteria"
    /\ UNCHANGED << runs, now, keyword, start_time_str, end_time_str,
                    start_time, end_time, file_status, lines, reads, verdicts,
                    log_entries, csv, csv_before, saves, arg, ret >>

\* Lines 89-100: the keyword and the two time strings are read and the time
\* strings that are not blank are parsed, the start first; one that does not
\* parse ends the run with its ValueError.
ReadCriteria ==
    /\ pc = "criteria"
    /\ \E k \in KeywordInputs, s \in TimeInputs, e \in TimeInputs :
          LET st == IF Strip(s) # << >> THEN StrptimeInput(Strip(s)) ELSE None
              en == IF Strip(e) # << >> THEN StrptimeInput(Strip(e)) ELSE None
              start_raised == Strip(s) # << >> /\ st = None
              end_raised == Strip(e) # << >> /\ en = None
          IN  /\ keyword' = Some(Strip(k))
              /\ start_time_str' = Strip(s)
              /\ end_time_str' = Strip(e)
              /\ start_time' = st
              /\ end_time' = IF start_raised THEN None ELSE en
              /\ pc' = IF start_raised \/ end_raised THEN "crashed"
                       ELSE "extract"
    /\ UNCHANGED << runs, now, console, log_file, file_status, lines, reads,
                    verdicts, log_entries, csv, csv_before, saves, arg, ret >>

\* Line 102: log_entries = extract_log_entries(log_file, keyword, start_time,
\* end_time), the log file holding one of `files`.
ExtractFrom(files) ==
    /\ pc = "extract"
    /\ \E status \in OpenOutcomes :
       \E content \in (IF status = "ok" THEN files ELSE {<< >>}) :
       \E rd \in ClockReads(now, Len(content)) :
          LET r == extract_log_entries(log_file[1], status, content, rd,
                                       keyword, start_time, end_time)
          IN  /\ file_status' = status
              /\ lines' = content
              /\ reads' = rd
              /\ verdicts' = r.disposed
              /\ now' = IF content = << >> THEN now ELSE rd[Len(content)]
              /\ console' = console \o r.printed
              /\ log_entries' = r.entries
              /\ pc' = IF r.exc # "" THEN "crashed" ELSE "report"
    /\ UNCHANGED << runs, log_file, keyword, start_time_str, end_time_str,
                    start_time, end_time, csv, csv_before, saves, arg, ret >>

Extract == ExtractFrom(MainFiles)

\* Line 109: the first five entries, each printed on a line of its own.
Preview(entries) ==
    [i \in 1..(IF Len(entries) < 5 THEN Len(entries) ELSE 5) |->
        Msg(" - ", entries[i])]

\* Lines 104-112 when no entry matched: the else branch.
ReportNoMatch ==
    /\ console' = Append(console, Msg("No matching log entries found.", << >>))
    /\ UNCHANGED << now, csv, saves >>

\* Lines 104-110 when entries matched: they are counted, saved and previewed.
ReportAndSave ==
    /\ \E clock \in {c \in Clock : DtLeq(now, c)} :
          /\ now' = clock
          /\ csv' = save_to_csv(log_entries, csv, clock)
    /\ saves' = saves + 1
    /\ console' = console
           \o << Msg("Found entries matching your criteria.",
                     StrOfInt(Len(log_entries))),
                 Msg("Entries successfully saved to parsed_log.csv.", << >>),
                 Msg("Summary of appended entries:", << >>) >>
           \o Preview(log_entries)

\* Report without the test of line 104: the entries are saved in any case.
ReportAlwaysSaves ==
    /\ pc = "report"
    /\ ReportAndSave
    /\ pc' = "done"
    /\ UNCHANGED << runs, log_file, keyword, start_time_str, end_time_str,
                    start_time, end_time, file_status, lines, reads, verdicts,
                    log_entries, csv_before, arg, ret >>

\* Lines 104-112 of main.
Report ==
    /\ pc = "report"
    /\ IF log_entries # << >> THEN ReportAndSave ELSE ReportNoMatch
    /\ pc' = "done"
    /\ UNCHANGED << runs, log_file, keyword, start_time_str, end_time_str,
                    start_time, end_time, file_status, lines, reads, verdicts,
                    log_entries, csv_before, arg, ret >>

Init == MainInit /\ arg = None /\ ret = << >>

Next == StartRun \/ GetLogFilePath \/ ReadCriteria \/ Extract \/ Report

Spec == Init /\ [][Next]_vars

----------------------------------------------------------------------------
(* extract_log_entries applied on its own, to every file of at most MaxLines
   lines of the vocabulary and every combination of keyword and bounds. *)

FilterKeywords == { None, Some(<< >>), Some(WordFailed) }
FilterBounds == { None, StrptimeInput(BoundA), StrptimeInput(BoundB) }

FilterInit ==
    /\ pc = "extract"
    /\ runs = 1
    /\ now \in Clock
    /\ console = << >>
    /\ log_file = Some(SyslogPath)
    /\ keyword \in FilterKeywords
    /\ start_time_str = << >>
    /\ end_time_str = << >>
    /\ start_time \in FilterBounds
    /\ end_time \in FilterBounds
    /\ file_status = "unopened"
    /\ lines = << >>
    /\ reads = << >>
    /\ verdicts = << >>
    /\ log_entries = << >>
    /\ csv = << >>
    /\ csv_before = << >>
    /\ saves = 0
    /\ arg = None
    /\ ret = << >>

ExtractAny == ExtractFrom(AllFiles)

SpecFilter == FilterInit /\ [][ExtractAny]_vars

----------------------------------------------------------------------------
(* extract_time applied on its own, to lines of at most MaxTokens tokens. *)

TimeTokens == { TokNov, TokFeb, Tok29, Tok31, TokClock, TokClockLeapSecond,
                TokOther }

\* Each sequence of tokens as a line: its tokens one blank apart, or after a
\* leading blank and a tab and a blank apart; each with its line end.
TimeLines ==
    LET seqs == SeqsUpTo(TimeTokens, MaxTokens)
    IN  {Join(t, << " " >>) \o << "\n" >> : t \in seqs}
        \cup {<< " " >> \o Join(t, << "\t", " " >>) \o << "\n" >> : t \in seqs}

TimeInit == MainInit /\ arg \in TimeLines /\ ret = << >>

\* extract_time(arg) is called; it reads the clock.
CallExtractTime ==
    /\ ret = << >>
    /\ \E clock \in {c \in Clock : DtLeq(now, c)} :
          /\ now' = clock
          /\ ret' = << extract_time(arg, clock) >>
    /\ UNCHANGED << pc, runs, console, log_file, keyword, start_time_str,
                    end_time_str, start_time, end_time, file_status, lines,
                    reads, verdicts, log_entries, csv, csv_before, saves, arg >>

SpecTime == TimeInit /\ [][CallExtractTime]_vars

----------------------------------------------------------------------------
(* ensure_log_extension applied, and applied again to its result, to every
   name of at most MaxNameLen characters. *)

NameChars == { ".", "l", "o", "g", "a" }
Names == SeqsUpTo(NameChars, MaxNameLen)

ExtInit == MainInit /\ now = ClockOld /\ arg \in Names /\ ret = << >>

CallEnsureLogExtension ==
    /\ Len(ret) < 2
    /\ ret' = Append(ret, ensure_log_extension(
                              IF ret = << >> THEN arg ELSE ret[Len(ret)]))
    /\ UNCHANGED << mainVars, arg >>

SpecExt == ExtInit /\ [][CallEnsureLogExtension]_vars

----------------------------------------------------------------------------
(* What the claims are stated with. *)

Quote == << "\"" >>

IsPrefix(p, q) == Len(p) <= Len(q) /\ SubSeq(q, 1, Len(p)) = p

\* What the run has added to the output file.
Added == SubSeq(csv, Len(csv_before) + 1, Len(csv))

\* The log file was read to its end.
Extracted == pc \in {"report", "done"} /\ file_status = "ok"

\* The keyword is absent, empty, or a substring of line i as it was read.
KeywordAdmits(i) ==
    keyword = None \/ keyword[1] = << >> \/ Contains(keyword[1], lines[i])

\* The timestamp extract_time finds in line i at the time the line was read.
StampOf(i) == extract_time(lines[i], reads[i])

\* The timestamp t is within the bounds that are set, the bounds included.
WithinBounds(t) ==
    /\ start_time = None \/ t = start_time[1] \/ DtLess(start_time[1], t)
    /\ end_time = None \/ t = end_time[1] \/ DtLess(t, end_time[1])

\* e is l without its leading and trailing whitespace.
IsStripOf(e, l) ==
    /\ e = << >> \/ (~IsSpace(e[1]) /\ ~IsSpace(e[Len(e)]))
    /\ \E a \in 0..(Len(l) - Len(e)) :
          /\ SubSeq(l, a + 1, a + Len(e)) = e
          /\ \A j \in 1..Len(l) :
                (j <= a \/ j > a + Len(e)) => IsSpace(l[j])

\* The strings of one or two digits that denote a number of lo..hi.
Numerals(lo, hi) ==
    {StrOfInt(n) : n \in lo..hi}
    \cup {<< "0" >> \o StrOfInt(n) : n \in {m \in lo..hi : m < 10}}

\* The first three tokens read '<month-abbreviation> <day>
\* <hour>:<minute>:<second>'.
ReadsAsStamp(tokens) ==
    /\ Len(tokens) >= 3
    /\ \E m \in 1..Len(MonthAbbr) : Lower(tokens[1]) = MonthAbbr[m]
    /\ tokens[2] \in Numerals(1, 31)
    /\ LET part == SplitOn(tokens[3], ":")
       IN  /\ Len(part) = 3
           /\ part[1] \in Numerals(0, 23)
           /\ part[2] \in Numerals(0, 59)
           /\ part[3] \in Numerals(0, 61)

IsDatetime(v) ==
    /\ Len(v) = 6
    /\ v[1] \in 1..9999
    /\ v[2] \in 1..12
    /\ v[3] \in 1..31
    /\ v[4] \in 0..23
    /\ v[5] \in 0..59
    /\ v[6] \in 0..59

RECURSIVE CsvScan(_, _, _, _, _, _)
\* A reader of CSV text with double-quote quoting, a doubled quote inside a
\* quoted field standing for one quote: the records of `text` from position
\* i on, `field` and `record` being what has been read of the current ones.
CsvScan(text, i, state, field, record, records) ==
    IF i > Len(text)
    THEN IF state = "start_record" THEN records
         ELSE Append(records, Append(record, field))
    ELSE LET c == text[i]
         IN  IF state = "in_quoted"
             THEN IF c = "\""
                  THEN CsvScan(text, i + 1, "quote_in_quoted", field, record,
                               records)
                  ELSE CsvScan(text, i + 1, "in_quoted", Append(field, c),
                               record, records)
             ELSE IF c = "\n"
             THEN IF state = "start_record"
                  THEN CsvScan(text, i + 1, "start_record", << >>, << >>,
                               records)
                  ELSE CsvScan(text, i + 1, "start_record", << >>, << >>,
                               Append(records, Append(record, field)))
             ELSE IF c = "," /\ state # "start_record"
             THEN CsvScan(text, i + 1, "start_field", << >>,
                          Append(record, field), records)
             ELSE IF c = ","
             THEN CsvScan(text, i + 1, "start_field", << >>, << << >> >>,
                          records)
             ELSE IF c = "\"" /\ state \in {"start_record", "start_field"}
             THEN CsvScan(text, i + 1, "in_quoted", field, record, records)
             ELSE IF c = "\"" /\ state = "quote_in_quoted"
             THEN CsvScan(text, i + 1, "in_quoted", Append(field, c), record,
                          records)
             ELSE CsvScan(text, i + 1, "in_field", Append(field, c), record,
                          records)

\* The records of a CSV text, each the sequence of its fields.
CsvRecords(text) == CsvScan(text, 1, "start_record", << >>, << >>, << >>)

\* The number of line ends in a text.
LineEnds(text) == Cardinality({i \in 1..Len(text) : text[i] = "\n"})

----------------------------------------------------------------------------
(* The claims. *)

\* C1: a line in which extract_time finds a timestamp T passes the time stage
\* of extract_log_entries if and only if (no start bound is set or T >= the
\* start bound) and (no end bound is set or T <= the end bound); the bounds
\* are inclusive.
C1_TimeStageInclusive ==
    \A i \in 1..Len(lines) :
        (verdicts[i] # "keyword" /\ StampOf(i) # None)
            => (verdicts[i] = "append" <=> WithinBounds(StampOf(i)[1]))

\* C1 witness: a line whose timestamp equals both bounds was retained and
\* another line was discarded for being after the end bound.
C1_Witness ==
    /\ Extracted
    /\ start_time # None /\ end_time # None
    /\ \E i, j \in 1..Len(lines) :
          /\ StampOf(i) = start_time /\ StampOf(i) = end_time
          /\ verdicts[i] = "append"
          /\ verdicts[j] = "end"

\* C2: a line in which extract_time finds no timestamp is never discarded on
\* time grounds, whatever the bounds: it is retained exactly when the keyword
\* is blank or a substring of the line.
C2_NoStampNoTimeFilter ==
    \A i \in 1..Len(lines) :
        StampOf(i) = None
            => /\ verdicts[i] \notin {"start", "end"}
               /\ verdicts[i] = "append" <=> KeywordAdmits(i)

\* C2 witness: with the start bound after the end bound, a line of fewer
\* than three tokens was retained.
C2_Witness ==
    /\ Extracted
    /\ start_time # None /\ end_time # None
    /\ DtLess(end_time[1], start_time[1])
    /\ \E i \in 1..Len(lines) :
          /\ Len(Split(lines[i])) < 3
          /\ StampOf(i) = None
          /\ verdicts[i] = "append"

\* C3: a line is retained only if the keyword is empty or absent or is a
\* literal, case-sensitive substring of the line; with no time bound set the
\* line is retained exactly then.
C3_KeywordLiteral ==
    \A i \in 1..Len(lines) :
        /\ verdicts[i] = "append" => KeywordAdmits(i)
        /\ (start_time = None /\ end_time = None)
               => (verdicts[i] = "append" <=> KeywordAdmits(i))

\* C3 witness: with no time bound, the keyword "Failed" retained one line and
\* discarded a line that holds "failed".
C3_Witness ==
    /\ Extracted
    /\ start_time = None /\ end_time = None
    /\ keyword = Some(WordFailed)
    /\ \E i, j \in 1..Len(lines) :
          /\ verdicts[i] = "append"
          /\ verdicts[j] = "keyword"
          /\ Contains(Lower(WordFailed), lines[j])

\* C4: when the log file is missing or permission is denied, no error goes
\* through: extract_log_entries prints the condition and returns the empty
\* sequence, and the run ends in the "no matches" branch with no CSV write.
C4_OpenFailureRecovered ==
    file_status \in {"missing", "denied"}
        => /\ pc \in {"report", "done"}
           /\ log_entries = << >>
           /\ \E i \in 1..Len(console) :
                 console[i] = Msg(IF file_status = "missing"
                                  THEN "Log file not found."
                                  ELSE "Permission denied.", log_file[1])
           /\ saves = 0
           /\ csv = csv_before
           /\ pc = "done"
                 => console[Len(console)].tag = "No matching log entries found."

\* C4 witness: a run that was denied the log file has ended, the output file
\* holding what earlier runs wrote.
C4_Witness ==
    /\ pc = "done"
    /\ file_status = "denied"
    /\ csv # << >>

\* C5: every entry save_to_csv appends is read back verbatim as the quoted
\* second field of its record, whatever characters the entry holds.
C5_RoundTrip ==
    (pc = "done" /\ saves > 0)
        => LET records == CsvRecords(csv)
               base == LineEnds(csv_before)
           IN  \A i \in 1..Len(log_entries) :
                  /\ base + i <= Len(records)
                  /\ Len(records[base + i]) >= 2
                  /\ records[base + i][2] = log_entries[i]

\* C6: the output file is never truncated or altered: its content when the
\* run started is a prefix of its content, and a finished run with n matched
\* entries has added exactly n records, one per entry, in their order.
C6_AppendOnly ==
    /\ IsPrefix(csv_before, csv)
    /\ pc \in Stopped
          => LET records == SplitOn(Added, "\n")
             IN  /\ Len(records) = Len(log_entries) + 1
                 /\ records[Len(records)] = << >>
                 /\ \A i \in 1..Len(log_entries) :
                       \E c \in Clock :
                          records[i] = Quote \o Strftime(c) \o Quote
                                       \o << "," >> \o Quote
                                       \o log_entries[i] \o Quote

\* C6 witness: a run that started with a non-empty output file has added two
\* records.
C6_Witness ==
    /\ pc = "done"
    /\ csv_before # << >>
    /\ Len(log_entries) = 2
    /\ csv # csv_before

\* C7: the output file is modified, and save_to_csv invoked, only in a run
\* that resolved a log path, whose time inputs were each blank or well formed,
\* and whose filter result is not empty; a run that exits early, dies of a
\* malformed time string or matches nothing leaves the file as it was.
C7_WriteOnlyOnMatch ==
    /\ (csv # csv_before \/ saves > 0)
          => /\ log_file # None
             /\ start_time_str = << >> \/ StrptimeInput(start_time_str) # None
             /\ end_time_str = << >> \/ StrptimeInput(end_time_str) # None
             /\ log_entries # << >>
             /\ pc = "done"
    /\ (pc \in {"exited", "crashed"} \/ (pc = "done" /\ log_entries = << >>))
          => (csv = csv_before /\ saves = 0)

\* C7 witness: a run died of a malformed end time, after a well-formed start
\* time, while the output file held what an earlier run wrote.
C7_Witness ==
    /\ pc = "crashed"
    /\ start_time # None
    /\ end_time_str = BoundMalformed
    /\ csv # << >>

\* C8: ensure_log_extension is idempotent; its result ends with ".log", is
\* the name itself when the name ends with ".log", and is otherwise the name
\* with ".log" appended.
C8_ExtensionIdempotent ==
    LET dotlog(x) == /\ Len(x) >= 4
                     /\ x[Len(x) - 3] = "."
                     /\ x[Len(x) - 2] = "l"
                     /\ x[Len(x) - 1] = "o"
                     /\ x[Len(x)] = "g"
    IN  /\ Len(ret) >= 1
           => /\ dotlog(ret[1])
              /\ dotlog(arg) => ret[1] = arg
              /\ ~dotlog(arg) => ret[1] = arg \o << ".", "l", "o", "g" >>
        /\ Len(ret) >= 2 => ret[2] = ret[1]

\* C8 witness: a name that ends with ".log" after some other text went
\* through ensure_log_extension twice.
C8_Witness ==
    /\ Len(ret) = 2
    /\ Len(arg) > 4
    /\ ret[1] = arg

\* C10: extract_time returns a timestamp or "no timestamp"; it returns "no
\* timestamp" when the line has fewer than three tokens or its first three
\* do not read as a timestamp; a timestamp it returns has the year of the
\* clock at the call.
C10_ExtractTimeTotal ==
    ret # << >>
        => /\ ret[1] = None \/ (Len(ret[1]) = 1 /\ IsDatetime(ret[1][1]))
           /\ (Len(Split(arg)) < 3 \/ ~ReadsAsStamp(Split(arg)))
                 => ret[1] = None
           /\ ret[1] # None => ret[1][1][1] = now[1]

\* C10 witness: extract_time returned a timestamp for a line of four tokens
\* that was read in the later year.
C10_Witness ==
    /\ ret # << >>
    /\ ret[1] # None
    /\ now = ClockNew
    /\ Len(Split(arg)) = 4

\* C9: what extract_log_entries returns is the lines that pass every active
\* filter, each stripped of surrounding whitespace, in the order of the file:
\* none dropped, repeated, reordered or added.
C9_EntriesAreRetainedLines ==
    Extracted
        => LET passes(i) ==
                   /\ KeywordAdmits(i)
                   /\ \/ start_time = None /\ end_time = None
                      \/ StampOf(i) = None
                      \/ WithinBounds(StampOf(i)[1])
               kept == {i \in 1..Len(lines) : passes(i)}
               rank(i) == Cardinality({j \in kept : j <= i})
           IN  /\ Len(log_entries) = Cardinality(kept)
               /\ \A i \in kept : IsStripOf(log_entries[rank(i)], lines[i])

\* C9 witness: two different lines were retained, the first of them with
\* whitespace stripped from its start.
C9_Witness ==
    /\ Extracted
    /\ Len(lines) = 2
    /\ Len(log_entries) = 2
    /\ log_entries[1] # log_entries[2]
    /\ IsSpace(lines[1][1])

====
